---- MODULE Spec2Model ----
(***************************************************************************)
(* DocStructureX: the multi-strategy outline extraction of src/main.py.    *)
(*                                                                         *)
(* A Python string is modelled as a sequence of one-character strings, so  *)
(* that the regular expressions, str.strip, len and the string order of    *)
(* the source are computed character by character.  Time is counted in     *)
(* tenths of a second.                                                     *)
(***************************************************************************)
EXTENDS Integers, Sequences, FiniteSets, TLC

(***************************************************************************)
(* Characters and character classes                                        *)
(***************************************************************************)

\* The characters in use, in increasing code point order.
Ascii ==
  << "\t", "\n", " ", ",", "-", ".", "/",
     "0", "1", "2", "3", "4", "5", "6", "7", "8", "9", ":", ";", "@",
     "A", "B", "C", "D", "E", "F", "G", "H", "I", "J", "K", "L", "M",
     "N", "O", "P", "Q", "R", "S", "T", "U", "V", "W", "X", "Y", "Z",
     "[", "]", "_",
     "a", "b", "c", "d", "e", "f", "g", "h", "i", "j", "k", "l", "m",
     "n", "o", "p", "q", "r", "s", "t", "u", "v", "w", "x", "y", "z" >>

Ord(c) == CHOOSE i \in 1..Len(Ascii) : Ascii[i] = c

Chars == {Ascii[i] : i \in 1..Len(Ascii)}

Digit == {"0", "1", "2", "3", "4", "5", "6", "7", "8", "9"}

UpperSeq ==
  << "A", "B", "C", "D", "E", "F", "G", "H", "I", "J", "K", "L", "M",
     "N", "O", "P", "Q", "R", "S", "T", "U", "V", "W", "X", "Y", "Z" >>

LowerSeq ==
  << "a", "b", "c", "d", "e", "f", "g", "h", "i", "j", "k", "l", "m",
     "n", "o", "p", "q", "r", "s", "t", "u", "v", "w", "x", "y", "z" >>

Upper == {UpperSeq[i] : i \in 1..26}

\* \s of the re module
Space == {" ", "\t", "\n"}

\* [^\n] and . of the re module (no DOTALL)
NotNewline == Chars \ {"\n"}

\* [IVXLC]
Roman == {"I", "V", "X", "L", "C"}

\* the characters of strip('.,;:')
Punct == {".", ",", ";", ":"}

\* the characters of strip(' .,;:')
SpacePunct == {" ", ".", ",", ";", ":"}

LowerChar(c) ==
  IF c \in Upper THEN LowerSeq[CHOOSE i \in 1..26 : UpperSeq[i] = c] ELSE c

\* str.lower
Lower(s) == [i \in 1..Len(s) |-> LowerChar(s[i])]

Min(S) == CHOOSE x \in S : \A y \in S : x <= y

MinOf(a, b) == IF a <= b THEN a ELSE b

\* the length of the longest run of characters of class C that starts at s[i]
SpanIn(s, i, C) ==
  IF i > Len(s) THEN 0
  ELSE (CHOOSE j \in i..(Len(s) + 1) :
          /\ j = Len(s) + 1 \/ s[j] \notin C
          /\ \A k \in i..(j - 1) : s[k] \in C) - i

CharAt(s, i, C) == i >= 1 /\ i <= Len(s) /\ s[i] \in C

\* the literal lit stands at s[i]
LitAt(s, i, lit) ==
  /\ i >= 1
  /\ i + Len(lit) - 1 <= Len(s)
  /\ SubSeq(s, i, i + Len(lit) - 1) = lit

\* the literal lit, in lower case, stands at s[i] of s.lower()
LowerLitAt(s, i, lit) ==
  /\ i >= 1
  /\ i + Len(lit) - 1 <= Len(s)
  /\ Lower(SubSeq(s, i, i + Len(lit) - 1)) = lit

\* substring test: lit in s
Contains(s, lit) == \E i \in 1..(Len(s) - Len(lit) + 1) : LitAt(s, i, lit)

\* substring test: lit in s.lower(), for a lit in lower case
LowerContains(s, lit) ==
  \E i \in 1..(Len(s) - Len(lit) + 1) : LowerLitAt(s, i, lit)

\* str.strip(chars) with the characters given as the set C
StripSet(s, C) ==
  LET lead  == SpanIn(s, 1, C)
      trail == SpanIn([i \in 1..Len(s) |-> s[Len(s) + 1 - i]], 1, C)
  IN  IF lead = Len(s) THEN << >> ELSE SubSeq(s, lead + 1, Len(s) - trail)

\* str.strip()
Strip(s) == StripSet(s, Space)

\* re.sub(r'\s+', ' ', s): every maximal run of whitespace becomes one space
CollapseSpace(s) ==
  LET idx == SelectSeq([i \in 1..Len(s) |-> i],
                       LAMBDA i : s[i] \notin Space \/ i = 1 \/ s[i - 1] \notin Space)
  IN  [k \in 1..Len(idx) |-> IF s[idx[k]] \in Space THEN " " ELSE s[idx[k]]]

\* a < b on Python strings: lexicographic by code point
StrLess(a, b) ==
  LET diff == {i \in 1..MinOf(Len(a), Len(b)) : a[i] # b[i]}
  IN  IF diff = {} THEN Len(a) < Len(b)
      ELSE Ord(a[Min(diff)]) < Ord(b[Min(diff)])

StrLeq(a, b) == a = b \/ StrLess(a, b)

RECURSIVE DigitsValue(_)
\* int(s) of a string of decimal digits
DigitsValue(s) ==
  IF s = << >> THEN 0
  ELSE 10 * DigitsValue(SubSeq(s, 1, Len(s) - 1)) + (Ord(s[Len(s)]) - Ord("0"))

RECURSIVE IntStr(_)
\* str(n) of a natural number
IntStr(n) ==
  IF n < 10 THEN <<Ascii[Ord("0") + n]>>
  ELSE IntStr(n \div 10) \o <<Ascii[Ord("0") + (n % 10)]>>

\* s repeated n times
Rep(s, n) == [i \in 1..(n * Len(s)) |-> s[((i - 1) % Len(s)) + 1]]

(***************************************************************************)
(* Program constants (src/main.py); durations in tenths of a second        *)
(***************************************************************************)

\* max_runtime=10.0
max_runtime == 100

\* _time_left() > 5.0 gates the layout strategy
LayoutGate == 50

\* _time_left() > 1.0 gates the pattern strategy
PatternGate == 10

\* _time_left() < 0.5 stops the page scan
PageScanStop == 5

\* _time_left() < 0.2 stops the heading scan
HeadingScanStop == 2

\* len(text) < 3 is discarded
MinTextLen == 3

\* len(text) > 150 is discarded
MaxTextLen == 150

\* a title longer than 100 characters is replaced
MaxTitleLen == 100

\* 1 <= count <= 100
MaxOutline == 100

\* range(min(50, len(doc)))
MaxPages == 50

\* headings[:20]
MaxFallback == 20

\* body_font = 12
DefaultBodyFont == 12

\* font_flags & 2**4
BoldFlag == 16

UntitledDocument ==
  << "U", "n", "t", "i", "t", "l", "e", "d", " ",
     "D", "o", "c", "u", "m", "e", "n", "t" >>

ErrorInProcessing ==
  << "E", "r", "r", "o", "r", " ", "i", "n", " ",
     "P", "r", "o", "c", "e", "s", "s", "i", "n", "g" >>

\* Python's None, as a value comparable with the result dictionaries
None == [isNone |-> TRUE, title |-> << >>, outline |-> << >>]

Result(t, o) == [isNone |-> FALSE, title |-> t, outline |-> o]

\* {"title": "Untitled Document", "outline": []}
EmptyResult == Result(UntitledDocument, << >>)

\* {"title": "Error in Processing", "outline": []}
ErrorResult == Result(ErrorInProcessing, << >>)

(***************************************************************************)
(* _validate_result                                                        *)
(***************************************************************************)

ValidCountTooLax(count) == count <= MaxOutline

ValidCountBelowMax(count) == 1 <= count /\ count < MaxOutline

ValidCount(count) == 1 <= count /\ count <= MaxOutline

_validate_result(result) ==
  IF result.isNone THEN FALSE ELSE ValidCount(Len(result.outline))

(***************************************************************************)
(* _extract_with_toc: the loop over the bookmark list                      *)
(***************************************************************************)

\* re.sub(r'\s+', ' ', title).strip(' .,;:')
TocClean(title) == StripSet(CollapseSpace(title), SpacePunct)

TocLevel(level) == IF level = 1 THEN "H1" ELSE IF level = 2 THEN "H2" ELSE "H3"

\* the outline list after the loop over toc
TocOutline(toc) ==
  LET entries == [i \in 1..Len(toc) |->
                    [level |-> TocLevel(toc[i].level),
                     text  |-> TocClean(toc[i].title),
                     page  |-> toc[i].page]]
  IN  SelectSeq(entries, LAMBDA e : /\ Len(e.text) >= MinTextLen
                                    /\ Len(e.text) <= MaxTextLen)

\* what _extract_with_toc returns for the bookmark list toc
TocResult(toc) ==
  LET outline == TocOutline(toc)
  IN  IF toc = << >> \/ outline = << >> THEN None
      ELSE Result(IF Len(outline[1].text) > MaxTitleLen
                  THEN UntitledDocument ELSE outline[1].text,
                  outline)

(***************************************************************************)
(* _is_artifact and _heading_level                                         *)
(***************************************************************************)

W_copyright == << "c", "o", "p", "y", "r", "i", "g", "h", "t" >>

W_all_rights_reserved ==
  << "a", "l", "l", " ", "r", "i", "g", "h", "t", "s", " ",
     "r", "e", "s", "e", "r", "v", "e", "d" >>

W_page == << "p", "a", "g", "e" >>

W_table_of_contents ==
  << "t", "a", "b", "l", "e", " ", "o", "f", " ",
     "c", "o", "n", "t", "e", "n", "t", "s" >>

W_http == << "h", "t", "t", "p" >>

W_www == << "w", "w", "w", "." >>

W_chapter == << "c", "h", "a", "p", "t", "e", "r" >>

W_section == << "s", "e", "c", "t", "i", "o", "n" >>

W_part == << "p", "a", "r", "t" >>

W_marker == << "[", "P", "A", "G", "E", "_" >>

\* re.match(r'^\d+$', text), for a text without a trailing newline
PureDigits(text) == text # << >> /\ SpanIn(text, 1, Digit) = Len(text)

\* re.match(r'^Page \d+', text, re.IGNORECASE)
PageNumberPrefix(text) ==
  /\ LowerLitAt(text, 1, W_page \o <<" ">>)
  /\ CharAt(text, 6, Digit)

\* any(artifact in text.lower() for artifact in [...])
BoilerplateWord(text) ==
  \E w \in {W_copyright, W_all_rights_reserved, W_page, W_table_of_contents} :
     LowerContains(text, w)

\* re.search(r'(http|www\.|@)', text)
LinkLike(text) ==
  Contains(text, W_http) \/ Contains(text, W_www) \/ Contains(text, <<"@">>)

IsArtifactDigitsOnly(text) == PureDigits(text) \/ PageNumberPrefix(text)

_is_artifact(text) ==
  PureDigits(text) \/ PageNumberPrefix(text) \/ BoilerplateWord(text) \/ LinkLike(text)

\* \.?\s+ matches at s[i]
OptDotSpace(s, i) ==
  \/ CharAt(s, i, Space)
  \/ CharAt(s, i, {"."}) /\ CharAt(s, i + 1, Space)

\* re.match(r'^(\d+\.?\s+|\d+\.\d+\.?\s+|[IVXLC]+\.?\s+)', text)
Numbered(text) ==
  LET d1 == SpanIn(text, 1, Digit)
      d2 == SpanIn(text, d1 + 2, Digit)
      r  == SpanIn(text, 1, Roman)
  IN  \/ d1 >= 1 /\ OptDotSpace(text, d1 + 1)
      \/ /\ d1 >= 1
         /\ CharAt(text, d1 + 1, {"."})
         /\ d2 >= 1
         /\ OptDotSpace(text, d1 + 2 + d2)
      \/ r >= 1 /\ OptDotSpace(text, r + 1)

\* re.match(r'^(Chapter|Section|Part)\s+\d+', text, re.IGNORECASE)
ChapterPrefix(text) ==
  \E w \in {W_chapter, W_section, W_part} :
     /\ LowerLitAt(text, 1, w)
     /\ SpanIn(text, Len(w) + 1, Space) >= 1
     /\ CharAt(text, Len(w) + 1 + SpanIn(text, Len(w) + 1, Space), Digit)

\* re.match(r'^\d+\.\s+[A-Z]', text)
NumberDotCapital(text) ==
  LET d == SpanIn(text, 1, Digit)
      w == SpanIn(text, d + 2, Space)
  IN  /\ d >= 1
      /\ CharAt(text, d + 1, {"."})
      /\ w >= 1
      /\ CharAt(text, d + 2 + w, Upper)

\* re.match(r'^\d+\.\d+\s+[A-Z]', text)
NumberNumberCapital(text) ==
  LET d1 == SpanIn(text, 1, Digit)
      d2 == SpanIn(text, d1 + 2, Digit)
      w  == SpanIn(text, d1 + 2 + d2, Space)
  IN  /\ d1 >= 1
      /\ CharAt(text, d1 + 1, {"."})
      /\ d2 >= 1
      /\ w >= 1
      /\ CharAt(text, d1 + 2 + d2 + w, Upper)

\* bool(block["font_flags"] & 2**4)
IsBold(flags) == (flags \div BoldFlag) % 2 = 1

\* the heading level of a block, "" standing for None
_heading_level(block, body_font_size) ==
  LET text      == block.text
      size_diff == block.font_size - body_font_size
      is_bold   == IsBold(block.font_flags)
      numbered  == Numbered(text)
      chapter   == ChapterPrefix(text)
  IN  IF size_diff >= 6 THEN "H1"
      ELSE IF size_diff >= 4 \/ (size_diff >= 2 /\ is_bold)
           THEN (IF size_diff >= 4 THEN "H2" ELSE "H3")
      ELSE IF is_bold /\ (numbered \/ chapter) THEN "H2"
      ELSE IF numbered /\ size_diff >= 1 THEN "H3"
      ELSE IF NumberDotCapital(text) THEN "H2"
      ELSE IF NumberNumberCapital(text) THEN "H3"
      ELSE ""

(***************************************************************************)
(* statistics.mode, _extract_title                                         *)
(***************************************************************************)

\* [b["font_size"] for b in all_blocks if b["font_size"] > 0]
FontSizes(blocks) ==
  SelectSeq([i \in 1..Len(blocks) |-> blocks[i].font_size], LAMBDA x : x > 0)

Count(seq, x) == Cardinality({i \in 1..Len(seq) : seq[i] = x})

\* the most frequent values of a non-empty sequence
Modes(seq) ==
  {seq[i] : i \in {j \in 1..Len(seq) :
                     \A k \in 1..Len(seq) : Count(seq, seq[k]) <= Count(seq, seq[j])}}

\* the first value of seq that is one of its most frequent values
FirstMode(seq) == seq[Min({i \in 1..Len(seq) : seq[i] \in Modes(seq)})]

\* The values body_font can take.  statistics.mode returns the first of
\* several equally frequent values from Python 3.8 on and raises
\* StatisticsError before, which the bare except turns into 12: with more
\* than one mode the outcome depends on the interpreter.
BodyFontOutcomes(blocks) ==
  LET font_sizes == FontSizes(blocks)
  IN  IF font_sizes = << >> THEN {DefaultBodyFont}
      ELSE IF Cardinality(Modes(font_sizes)) = 1 THEN {FirstMode(font_sizes)}
      ELSE {FirstMode(font_sizes), DefaultBodyFont}

_extract_title(blocks, body_font_size) ==
  LET first_pages == SelectSeq(blocks, LAMBDA b : b.page <= 3)
      candidates  == SelectSeq(first_pages,
                       LAMBDA b : /\ b.font_size > body_font_size + 2
                                  /\ 5 < Len(b.text)
                                  /\ Len(b.text) < 200)
      Before(a, b) == a.page < b.page \/ (a.page = b.page /\ a.y < b.y)
      first       == Min({i \in 1..Len(candidates) :
                            \A j \in 1..Len(candidates) :
                               ~Before(candidates[j], candidates[i])})
      long        == {i \in 1..Len(first_pages) : Len(first_pages[i].text) > 10}
  IN  IF candidates # << >> THEN candidates[first].text
      ELSE IF long # {} THEN first_pages[Min(long)].text
      ELSE UntitledDocument

(***************************************************************************)
(* _extract_headings_multilayer: sort and _clean_headings                  *)
(***************************************************************************)

\* the sort key (x["page"], x["text"]) of a precedes that of b
KeyLess(a, b) == a.page < b.page \/ (a.page = b.page /\ StrLess(a.text, b.text))

RECURSIVE Insert(_, _)
\* h inserted into the sorted list after every entry whose key is not greater
Insert(sorted, h) ==
  IF sorted = << >> THEN <<h>>
  ELSE IF KeyLess(h, Head(sorted)) THEN <<h>> \o sorted
  ELSE <<Head(sorted)>> \o Insert(Tail(sorted), h)

RECURSIVE StableSort(_)
StableSort(headings) ==
  IF headings = << >> THEN << >>
  ELSE Insert(StableSort(SubSeq(headings, 1, Len(headings) - 1)),
              headings[Len(headings)])

SortUnsorted(headings) == headings

\* headings.sort(key=lambda x: (x["page"], x["text"]))
SortHeadings(headings) == StableSort(headings)

\* re.sub(r'\s+', ' ', h["text"]).strip('.,;:')
CleanText(text) == StripSet(CollapseSpace(text), Punct)

RECURSIVE CleanKeptFrom(_, _, _)
\* the loop of _clean_headings from index i on: the indices of the entries kept
CleanKeptFrom(headings, i, seen) ==
  IF i > Len(headings) THEN << >>
  ELSE LET text == CleanText(headings[i].text)
       IN  IF text # << >> /\ text \notin seen /\ Len(text) >= MinTextLen
           THEN <<i>> \o CleanKeptFrom(headings, i + 1, seen \cup {text})
           ELSE CleanKeptFrom(headings, i + 1, seen)

CleanKeepAll(headings) == [i \in 1..Len(headings) |-> i]

\* the indices of the entries _clean_headings keeps
CleanKept(headings) == CleanKeptFrom(headings, 1, {})

_clean_headings(headings) ==
  LET kept == CleanKept(headings)
  IN  [k \in 1..Len(kept) |->
         [headings[kept[k]] EXCEPT !.text = CleanText(headings[kept[k]].text)]]

\* the text each entry of _clean_headings(headings) had before the cleanup
SortKeys(headings) ==
  LET kept == CleanKept(headings)
  IN  [k \in 1..Len(kept) |-> headings[kept[k]].text]

(***************************************************************************)
(* _extract_with_regex_fallback: the regular expression passes             *)
(***************************************************************************)

\* \[PAGE_(\d+)\] at s[i]: the index after the marker, 0 without a match
MarkerEnd(s, i, ignorecase) ==
  LET d == SpanIn(s, i + 6, Digit)
  IN  IF /\ IF ignorecase THEN LowerLitAt(s, i, Lower(W_marker))
                           ELSE LitAt(s, i, W_marker)
         /\ d >= 1
         /\ CharAt(s, i + 6 + d, {"]"})
      THEN i + 6 + d + 1
      ELSE 0

\* (\d+\.\d*\s+[A-Z][^\n]{5,80}) at s[q]: the index after the match, 0 without
NumberedEnd(s, q) ==
  LET d1 == SpanIn(s, q, Digit)
      d2 == SpanIn(s, q + d1 + 1, Digit)
      w  == SpanIn(s, q + d1 + 1 + d2, Space)
      c  == q + d1 + 1 + d2 + w
      n  == SpanIn(s, c + 1, NotNewline)
  IN  IF /\ d1 >= 1
         /\ CharAt(s, q + d1, {"."})
         /\ w >= 1
         /\ CharAt(s, c, Upper)
         /\ n >= 5
      THEN c + 1 + MinOf(n, 80)
      ELSE 0

\* ((Chapter|Section)\s+\d+[^\n]{0,50}) at s[q], re.IGNORECASE
ChapterEnd(s, q) ==
  LET w == SpanIn(s, q + 7, Space)
      d == SpanIn(s, q + 7 + w, Digit)
      n == SpanIn(s, q + 7 + w + d, NotNewline)
  IN  IF /\ \/ LowerLitAt(s, q, W_chapter)
            \/ LowerLitAt(s, q, W_section)
         /\ w >= 1
         /\ d >= 1
      THEN q + 7 + w + d + MinOf(n, 50)
      ELSE 0

\* ([A-Z][^\n]{10,100}) at s[q]
TitleEnd(s, q) ==
  LET n == SpanIn(s, q + 1, NotNewline)
  IN  IF CharAt(s, q, Upper) /\ n >= 10 THEN q + 1 + MinOf(n, 100) ELSE 0

GroupEnd(pass, s, q) ==
  IF pass = "numbered" THEN NumberedEnd(s, q)
  ELSE IF pass = "chapter" THEN ChapterEnd(s, q)
  ELSE TitleEnd(s, q)

\* .*? from s[m] on: the first index where the group matches, 0 if there is none
GroupStart(pass, s, m) ==
  LET starts == {q \in m..(m + SpanIn(s, m, NotNewline)) : GroupEnd(pass, s, q) > 0}
  IN  IF starts = {} THEN 0 ELSE Min(starts)

RECURSIVE FindIter(_, _, _)
\* re.finditer of a pass from s[pos] on: the (page, text) of every match
FindIter(pass, s, pos) ==
  LET i == pos + SpanIn(s, pos, Chars \ {"["})
      m == MarkerEnd(s, i, pass = "chapter")
      q == IF m > 0 THEN GroupStart(pass, s, m) ELSE 0
      e == GroupEnd(pass, s, q)
  IN  IF i > Len(s) THEN << >>
      ELSE IF q = 0 THEN FindIter(pass, s, i + 1)
      ELSE << [page |-> DigitsValue(SubSeq(s, i + 6, m - 2)),
               text |-> Strip(SubSeq(s, q, e - 1))] >> \o FindIter(pass, s, e)

\* text.count('.')
CountDots(text) == Cardinality({i \in 1..Len(text) : text[i] = "."})

\* the headings list of _extract_with_regex_fallback before the truncation
FallbackHeadings(all_text) ==
  LET numbered == FindIter("numbered", all_text, 1)
      chapter  == FindIter("chapter", all_text, 1)
  IN  [k \in 1..Len(numbered) |->
         [level |-> IF CountDots(numbered[k].text) > 1 THEN "H3" ELSE "H2",
          text  |-> numbered[k].text,
          page  |-> numbered[k].page]]
      \o
      [k \in 1..Len(chapter) |->
         [level |-> "H1", text |-> chapter[k].text, page |-> chapter[k].page]]

\* re.search(r'\[PAGE_1\].*?([A-Z][^\n]{10,100})', all_text)
FallbackTitle(all_text) ==
  LET lit    == W_marker \o <<"1", "]">>
      Hit(i) == /\ all_text[i] = "["
                /\ LitAt(all_text, i, lit)
                /\ GroupStart("title", all_text, i + Len(lit)) > 0
      first  == CHOOSE i \in 1..Len(all_text) :
                   Hit(i) /\ \A k \in 1..(i - 1) : ~Hit(k)
      q      == GroupStart("title", all_text, first + Len(lit))
  IN  IF \A i \in 1..Len(all_text) : ~Hit(i) THEN UntitledDocument
      ELSE Strip(SubSeq(all_text, q, TitleEnd(all_text, q) - 1))

Truncate(headings) == SubSeq(headings, 1, MinOf(Len(headings), MaxFallback))

\* what _extract_with_regex_fallback returns for the concatenated text
FallbackResult(all_text) ==
  Result(FallbackTitle(all_text), Truncate(FallbackHeadings(all_text)))

\* f"[PAGE_{page_num + 1}]" + page.get_text()
PageText(page_num, raw) == W_marker \o IntStr(page_num + 1) \o <<"]">> \o raw

(***************************************************************************)
(* The documents: what the document engine (fitz) hands to the program.    *)
(* A bookmark is (level, title, page); a page has its spans, each with     *)
(* text, size, flags and the top of its bounding box, and its raw text.    *)
(***************************************************************************)

Bookmark(l, t, p) == [level |-> l, title |-> t, page |-> p]

TextSpan(t, s, f, y) == [text |-> t, size |-> s, flags |-> f, y |-> y]

Page(spans, raw) == [spans |-> spans, raw |-> raw]

Document(toc, pages) == [toc |-> toc, pages |-> pages]

TocIntro ==
  << Bookmark(1, <<"I", "n", "t", "r", "o">>, 1), Bookmark(2, <<" ", " ", "B", "a", "c", "k", "g", "r", "o", "u", "n", "d", ".", ".", " ">>, 2),
     Bookmark(7, <<"1", ".", "1", "\t", "S", "c", "o", "p", "e", ":">>, 2) >>

TocDiscarded == << Bookmark(1, <<"a", "b">>, 1), Bookmark(3, <<" ", ".", ".", " ", ";">>, 2) >>

TocRepeated(n) == [i \in 1..n |-> Bookmark(2, <<"P", "a", "r", "t", ";", " ", "O", "n", "e">>, i)]

TocLongTitle ==
  << Bookmark(3, Rep(<<"a">>, MaxTitleLen + 1), 1),
     Bookmark(1, Rep(<<"b">>, MaxTextLen + 1), 2),
     Bookmark(1, Rep(<<"c">>, MaxTextLen) \o <<" ", ".">>, 3) >>

PageReport ==
  Page(<< TextSpan(<<" ", " ", "A", "n", "n", "u", "a", "l", " ", "R", "e", "p", "o", "r", "t", " ", " ">>, 24, 0, 90),
          TextSpan(<<"P", "r", "e", "f", "a", "c", "e", " ", "a", "n", "d", " ", "s", "c", "o", "p", "e">>, 24, 0, 40),
          TextSpan(<<"1", ".", " ", "O", "v", "e", "r", "v", "i", "e", "w">>, 12, 16, 120),
          TextSpan(<<"P", "a", "g", "e", " ", "3">>, 18, 0, 700),
          TextSpan(<<"P", "l", "a", "i", "n", " ", "b", "o", "d", "y", " ", "t", "e", "x", "t">>, 12, 0, 200),
          TextSpan(<<"M", "o", "r", "e", " ", "b", "o", "d", "y", " ", "t", "e", "x", "t", ".">>, 12, 0, 220),
          TextSpan(<<"a", "b">>, 30, 0, 10) >>,
       <<"A", "n", "n", "u", "a", "l", " ", "R", "e", "p", "o", "r", "t", "\n", "1", ".", " ", "O", "v", "e", "r", "v", "i", "e", "w", "\n", "P", "l", "a", "i", "n", " ", "b", "o", "d", "y", " ", "t", "e", "x", "t", "\n">>)

PageDetails ==
  Page(<< TextSpan(<<"2", ".", "1", " ", "D", "e", "t", "a", "i", "l", "s">>, 12, 0, 50),
          TextSpan(<<"1", ".", " ", "O", "v", "e", "r", "v", "i", "e", "w">>, 12, 16, 60),
          TextSpan(<<"C", "o", "p", "y", "r", "i", "g", "h", "t", " ", "2", "0", "2", "0">>, 18, 16, 700),
          TextSpan(<<"w", "w", "w", ".", "e", "x", "a", "m", "p", "l", "e", ".", "c", "o", "m">>, 18, 0, 720),
          TextSpan(<<"I", "V", ".", " ", "R", "e", "s", "u", "l", "t", "s", ":">>, 14, 16, 300),
          TextSpan(<<"3", " ", "M", "e", "t", "h", "o", "d", "s">>, 13, 0, 400),
          TextSpan(<<"P", "l", "a", "i", "n", " ", "b", "o", "d", "y", " ", "t", "e", "x", "t">>, 12, 0, 500) >>,
       <<"2", ".", "1", " ", "D", "e", "t", "a", "i", "l", "s", "\n", "C", "h", "a", "p", "t", "e", "r", " ", "2", " ", "R", "e", "s", "u", "l", "t", "s", "\n">>)

\* texts the artifact filter rejects, and texts it passes that the cleanup changes
PageArtifacts ==
  Page(<< TextSpan(<<"2", "0", "2", "4", ".">>, 18, 0, 10),
          TextSpan(<<"1", "2", "3", "4", "5">>, 19, 0, 20),
          TextSpan(<<"A", "l", "l", " ", " ", "r", "i", "g", "h", "t", "s", " ", "r", "e", "s", "e", "r", "v", "e", "d">>, 20, 0, 30),
          TextSpan(<<"T", "a", "b", "l", "e", " ", "o", "f", " ", "C", "o", "n", "t", "e", "n", "t", "s">>, 21, 0, 40),
          TextSpan(<<"m", "a", "i", "l", "@", "x", ".", "o", "r", "g">>, 22, 0, 50),
          TextSpan(<<"S", "e", "e", " ", "h", "t", "t", "p", ":", "/", "/", "x">>, 23, 0, 60),
          TextSpan(<<"S", "u", "m", "m", "a", "r", "y">>, 24, 0, 70),
          TextSpan(<<"b", "o", "d", "y", " ", "t", "e", "x", "t", " ", "o", "n", "e">>, 12, 0, 80),
          TextSpan(<<"b", "o", "d", "y", " ", "t", "e", "x", "t", " ", "t", "w", "o">>, 12, 0, 90) >>,
       <<"2", "0", "2", "4", ".", "\n", "S", "u", "m", "m", "a", "r", "y", "\n">>)

\* texts whose order changes with the cleanup, and texts the cleanup identifies
PageOrder ==
  Page(<< TextSpan(<<"B", "e", "t", "a">>, 18, 0, 10),
          TextSpan(<<".", "Z", "e", "t", "a">>, 19, 0, 20),
          TextSpan(<<"A", "l", "p", "h", "a">>, 20, 0, 30),
          TextSpan(<<"A", "l", "p", "h", "a", ".">>, 21, 0, 40),
          TextSpan(<<"G", "a", "m", "m", "a", " ", " ", "R", "a", "y">>, 17, 0, 50),
          TextSpan(<<":", ":">> \o <<"a", "b">> \o <<";">>, 22, 0, 55),
          TextSpan(<<"b", "o", "d", "y", " ", "t", "e", "x", "t", " ", "o", "n", "e">>, 12, 0, 60),
          TextSpan(<<"b", "o", "d", "y", " ", "t", "e", "x", "t", " ", "t", "w", "o">>, 12, 0, 70) >>,
       <<"B", "e", "t", "a", "\n", ".", "Z", "e", "t", "a", "\n", "A", "l", "p", "h", "a", "\n">>)

PageLong ==
  Page(<< TextSpan(Rep(<<"A">>, MaxTextLen), 18, 0, 10),
          TextSpan(Rep(<<"B">>, MaxTextLen + 1), 18, 0, 20),
          TextSpan(<<"b", "o", "d", "y", " ", "t", "e", "x", "t", " ", "o", "n", "e">>, 18, 0, 60),
          TextSpan(<<"b", "o", "d", "y", " ", "t", "e", "x", "t", " ", "t", "w", "o">>, 19, 0, 70) >>,
       << >>)

\* two equally frequent font sizes
PageTwoSizes ==
  Page(<< TextSpan(<<"S", "m", "a", "l", "l", " ", "p", "r", "i", "n", "t">>, 10, 0, 10),
          TextSpan(<<"L", "a", "r", "g", "e", " ", "p", "r", "i", "n", "t", " ", "h", "e", "r", "e">>, 14, 0, 20),
          TextSpan(<<"L", "a", "r", "g", "e", " ", "p", "r", "i", "n", "t", " ", "t", "o", "o">>, 14, 0, 30),
          TextSpan(<<"S", "m", "a", "l", "l", " ", "a", "g", "a", "i", "n">>, 10, 0, 40),
          TextSpan(<<"H", "u", "g", "e">>, 0, 0, 50) >>,
       << >>)

\* no span is a heading, the raw text has numbered lines
PageRawNumbered ==
  Page(<< TextSpan(<<"1", ".">>, 12, 0, 10),
          TextSpan(<<"I", "n", "t", "r", "o", "d", "u", "c", "t", "i", "o", "n", " ", "t", "o", " ", "i", "t">>, 12, 0, 10) >>,
       <<"1", ".", " ", " ", "I", "n", "t", "r", "o", "d", "u", "c", "t", "i", "o", "n", " ", "t", "o", " ", "i", "t", ".", "\n", "1", ".", "2", ".", " ", "S", "c", "o", "p", "e", " ", "o", "f", " ", "w", "o", "r", "k", "\n">>)

PageRawChapter ==
  Page(<< >>, <<"R", "u", "n", "n", "i", "n", "g", " ", "h", "e", "a", "d", " ", "c", "h", "a", "p", "t", "e", "r", " ", " ", "7", ":", " ", "B", "a", "s", "i", "c", "s", ".", " ", "\n", "2", ".", " ", "S", "e", "c", "o", "n", "d", " ", "H", "e", "a", "d", "i", "n", "g", "\n">>)

PageRawRepeat ==
  Page(<< >>, <<"3", ".", " ", "H", "e", "a", "d", "e", "r", "\n">>)

PageRawLong == Page(<< >>, <<"1", ".">> \o Rep(<<"7">>, MaxTextLen) \o <<" ", "O", "v", "e", "r", "l", "o", "n", "g", "\n">>)

Docs ==
  << Document(TocIntro, <<PageReport, PageDetails>>),
     Document(TocDiscarded, <<PageReport, PageDetails>>),
     Document(TocRepeated(MaxOutline), <<PageRawNumbered>>),
     Document(TocRepeated(MaxOutline + 1), <<PageOrder>>),
     Document(TocLongTitle, << >>),
     Document(<< >>, << >>),
     Document(<< >>, <<PageReport, PageDetails, PageReport>>),
     Document(<< >>, <<PageArtifacts>>),
     Document(<< >>, <<PageOrder, PageOrder>>),
     Document(<< >>, <<PageLong>>),
     Document(<< >>, <<PageTwoSizes>>),
     Document(<< >>, <<PageRawNumbered, PageRawChapter>>),
     Document(<< >>, <<PageRawLong>>),
     Document(<< >>, [i \in 1..(MaxPages + 1) |-> PageRawRepeat]) >>

(***************************************************************************)
(* Bounds of the model                                                     *)
(***************************************************************************)

\* the number of *.pdf files process_directory finds
MaxDocs == 2

\* the latest reading of the clock after extract_outline started
MaxElapsed == 150

\* the durations a call into the document engine or one loop step can take
Delays == {0, 40, 50}

(***************************************************************************)
(* The state of process_directory and of the extract_outline it runs       *)
(***************************************************************************)

VARIABLES
  pc,                \* the position in process_directory / extract_outline
  idx,               \* the number of files the loop of process_directory took
  docId,             \* the file being processed, an index into Docs
  writes,            \* per file, how many times its output was written
  started,           \* self.start_time is set
  elapsed,           \* time.time() - self.start_time
  docOpen,           \* the local doc of the running strategy is an open handle
  leaked,            \* handles that were left open and are no longer referenced
  ran,               \* the strategies invoked by this extract_outline, in order
  checked,           \* the candidates _validate_result saw, with its verdicts
  tocDone,           \* _extract_with_toc returned
  tocLeft,           \* _time_left() when _extract_with_toc returned
  toc_result,
  heuristic_result,
  fallback_result,
  page_num,
  all_blocks,
  body_font,
  title,
  headings,
  seen,
  bi,                \* the index of the block the heading loop is at
  sortKeys,          \* the sort key text of each heading the layout strategy returned
  all_text,
  faulted,           \* an exception was raised in this extract_outline
  source,            \* the strategy whose candidate extract_outline returned
  result             \* what extract_outline returned

vars ==
  << pc, idx, docId, writes, started, elapsed, docOpen, leaked, ran, checked,
     tocDone, tocLeft, toc_result, heuristic_result, fallback_result, page_num,
     all_blocks, body_font, title, headings, seen, bi, sortKeys, all_text,
     faulted, source, result >>

\* the variables of the batch loop and of the handles
batchVars == << idx, docId, writes, leaked >>

\* the locals of the layout strategy
layoutVars == << all_blocks, body_font, title, headings, seen, bi, sortKeys >>

doc == Docs[docId]

\* min(50, len(doc))
ScanPages == MinOf(MaxPages, Len(doc.pages))

\* _time_left, read when the clock shows e
TimeLeftAt(e) == max_runtime - (IF started THEN e ELSE 0)

TimeLeft == TimeLeftAt(elapsed)

\* the clock moves on by d while a call or a loop step runs
Advance(d) ==
  /\ d \in Delays
  /\ elapsed + d <= MaxElapsed
  /\ elapsed' = elapsed + d

LayoutAllowedAtGate(left) == left >= LayoutGate

\* if self._time_left() > 5.0
LayoutAllowed(left) == left > LayoutGate

\* if self._time_left() > 1.0
PatternAllowed(left) == left > PatternGate

FaultPropagates == "crashed"

\* except Exception as exc: ... return {"title": "Error in Processing", ...}
FaultOutcome == "returned"

\* the positions where the document engine is called
EngineCalls == {"toc_open", "toc_read", "lay_open", "lay_page", "pat_open", "pat_page"}

\* what _validate_result(candidate) is recorded as
Verdict(strategy, candidate) ==
  [strategy |-> strategy,
   isNone   |-> candidate.isNone,
   count    |-> Len(candidate.outline),
   ok       |-> _validate_result(candidate)]

\* the locals of the strategies hold their initial values
StrategyLocalsCleared ==
  /\ page_num' = 0
  /\ all_blocks' = << >>
  /\ body_font' = DefaultBodyFont
  /\ title' = << >>
  /\ seen' = {}
  /\ bi' = 1
  /\ all_text' = << >>

Init ==
  /\ pc = "idle"
  /\ idx = 0
  /\ docId = 1
  /\ writes = [i \in 1..MaxDocs |-> 0]
  /\ started = FALSE
  /\ elapsed = 0
  /\ docOpen = FALSE
  /\ leaked = 0
  /\ ran = << >>
  /\ checked = << >>
  /\ tocDone = FALSE
  /\ tocLeft = max_runtime
  /\ toc_result = None
  /\ heuristic_result = None
  /\ fallback_result = None
  /\ page_num = 0
  /\ all_blocks = << >>
  /\ body_font = DefaultBodyFont
  /\ title = << >>
  /\ headings = << >>
  /\ seen = {}
  /\ bi = 1
  /\ sortKeys = << >>
  /\ all_text = << >>
  /\ faulted = FALSE
  /\ source = "none"
  /\ result = None

(***************************************************************************)
(* process_directory                                                       *)
(***************************************************************************)

\* the loop takes the next file and calls extract_outline:
\* self.start_time = time.time()
NextFile ==
  /\ pc = "idle"
  /\ idx < MaxDocs
  /\ idx' = idx + 1
  /\ \E d \in 1..Len(Docs) : docId' = d
  /\ started' = TRUE
  /\ elapsed' = 0
  /\ pc' = "toc_open"
  /\ ran' = << >>
  /\ checked' = << >>
  /\ tocDone' = FALSE
  /\ tocLeft' = max_runtime
  /\ toc_result' = None
  /\ heuristic_result' = None
  /\ fallback_result' = None
  /\ page_num' = 0
  /\ all_blocks' = << >>
  /\ body_font' = DefaultBodyFont
  /\ title' = << >>
  /\ headings' = << >>
  /\ seen' = {}
  /\ bi' = 1
  /\ sortKeys' = << >>
  /\ all_text' = << >>
  /\ faulted' = FALSE
  /\ source' = "none"
  /\ result' = None
  /\ UNCHANGED << writes, docOpen, leaked >>

\* json.dump(result, f, ...) into <stem>.json; what extract_outline left
\* behind is not read again
WriteOutput ==
  /\ pc = "returned"
  /\ writes' = [writes EXCEPT ![idx] = @ + 1]
  /\ pc' = "idle"
  /\ elapsed' = 0
  /\ ran' = << >>
  /\ checked' = << >>
  /\ tocDone' = FALSE
  /\ tocLeft' = max_runtime
  /\ toc_result' = None
  /\ heuristic_result' = None
  /\ fallback_result' = None
  /\ headings' = << >>
  /\ sortKeys' = << >>
  /\ faulted' = FALSE
  /\ source' = "none"
  /\ result' = None
  /\ StrategyLocalsCleared
  /\ UNCHANGED << idx, docId, started, docOpen, leaked >>

(***************************************************************************)
(* _extract_with_toc                                                       *)
(***************************************************************************)

\* doc = fitz.open(pdf_path)
TocOpen ==
  /\ pc = "toc_open"
  /\ \E d \in Delays : Advance(d)
  /\ docOpen' = TRUE
  /\ ran' = Append(ran, "toc")
  /\ pc' = "toc_read"
  /\ UNCHANGED << batchVars, started, checked, tocDone, tocLeft, toc_result,
                  heuristic_result, fallback_result, page_num, layoutVars,
                  all_text, faulted, source, result >>

\* toc = doc.get_toc(), the loop, doc.close() and the return
TocRead ==
  /\ pc = "toc_read"
  /\ \E d \in Delays : Advance(d)
  /\ toc_result' = TocResult(doc.toc)
  /\ docOpen' = FALSE
  /\ tocDone' = TRUE
  /\ tocLeft' = TimeLeftAt(elapsed')
  /\ pc' = "toc_check"
  /\ UNCHANGED << batchVars, started, ran, checked, heuristic_result,
                  fallback_result, page_num, layoutVars, all_text, faulted,
                  source, result >>

(***************************************************************************)
(* extract_outline: the driver                                             *)
(***************************************************************************)

\* if self._validate_result(toc_result): return toc_result
\* if self._time_left() > 5.0: ...
CheckToc ==
  /\ pc = "toc_check"
  /\ checked' = Append(checked, Verdict("toc", toc_result))
  /\ IF _validate_result(toc_result)
     THEN /\ result' = toc_result
          /\ source' = "toc"
          /\ pc' = "returned"
     ELSE /\ pc' = IF LayoutAllowed(TimeLeft) THEN "lay_open" ELSE "pat_gate"
          /\ UNCHANGED << result, source >>
  /\ UNCHANGED << batchVars, started, elapsed, docOpen, ran, tocDone, tocLeft,
                  toc_result, heuristic_result, fallback_result, page_num,
                  layoutVars, all_text, faulted >>

\* if self._validate_result(heuristic_result): return heuristic_result
CheckLayout ==
  /\ pc = "lay_check"
  /\ checked' = Append(checked, Verdict("layout", heuristic_result))
  /\ IF _validate_result(heuristic_result)
     THEN /\ result' = heuristic_result
          /\ source' = "layout"
          /\ pc' = "returned"
     ELSE /\ pc' = "pat_gate"
          /\ UNCHANGED << result, source >>
  /\ UNCHANGED << batchVars, started, elapsed, docOpen, ran, tocDone, tocLeft,
                  toc_result, heuristic_result, fallback_result, page_num,
                  layoutVars, all_text, faulted >>

\* if self._time_left() > 1.0: ... else the empty result
PatternGateCheck ==
  /\ pc = "pat_gate"
  /\ IF PatternAllowed(TimeLeft)
     THEN /\ pc' = "pat_open"
          /\ UNCHANGED << result, source >>
     ELSE /\ result' = EmptyResult
          /\ source' = "empty"
          /\ pc' = "returned"
  /\ UNCHANGED << batchVars, started, elapsed, docOpen, ran, checked, tocDone,
                  tocLeft, toc_result, heuristic_result, fallback_result,
                  page_num, layoutVars, all_text, faulted >>

\* if self._validate_result(fallback_result): return fallback_result
\* return {"title": "Untitled Document", "outline": []}
CheckPattern ==
  /\ pc = "pat_check"
  /\ checked' = Append(checked, Verdict("pattern", fallback_result))
  /\ IF _validate_result(fallback_result)
     THEN /\ result' = fallback_result
          /\ source' = "pattern"
     ELSE /\ result' = EmptyResult
          /\ source' = "empty"
  /\ pc' = "returned"
  /\ UNCHANGED << batchVars, started, elapsed, docOpen, ran, tocDone, tocLeft,
                  toc_result, heuristic_result, fallback_result, page_num,
                  layoutVars, all_text, faulted >>

\* an exception raised by the document engine inside the try block
Fault ==
  /\ pc \in EngineCalls
  /\ faulted' = TRUE
  /\ leaked' = IF docOpen THEN leaked + 1 ELSE leaked
  /\ docOpen' = FALSE
  /\ pc' = FaultOutcome
  /\ IF FaultOutcome = "returned"
     THEN result' = ErrorResult /\ source' = "error"
     ELSE UNCHANGED << result, source >>
  /\ StrategyLocalsCleared
  /\ UNCHANGED << idx, docId, writes, started, elapsed, ran, checked, tocDone,
                  tocLeft, toc_result, heuristic_result, fallback_result,
                  headings, sortKeys >>

\* The interpreter finalizes a document that nothing refers to any more and
\* so closes its handle; when it does so is left to the interpreter.
Finalize ==
  /\ leaked > 0
  /\ leaked' = leaked - 1
  /\ UNCHANGED << pc, idx, docId, writes, started, elapsed, docOpen, ran,
                  checked, tocDone, tocLeft, toc_result, heuristic_result,
                  fallback_result, page_num, layoutVars, all_text, faulted,
                  source, result >>

(***************************************************************************)
(* _extract_with_pymupdf                                                   *)
(***************************************************************************)

\* the blocks the spans of page number n (from 0) add to all_blocks
PageBlocks(n, page) ==
  LET blocks == [i \in 1..Len(page.spans) |->
                   [text       |-> Strip(page.spans[i].text),
                    page       |-> n + 1,
                    font_size  |-> page.spans[i].size,
                    font_flags |-> page.spans[i].flags,
                    y          |-> page.spans[i].y]]
  IN  SelectSeq(blocks, LAMBDA b : Len(b.text) > 2)

\* doc = fitz.open(pdf_path); all_blocks = []
LayoutOpen ==
  /\ pc = "lay_open"
  /\ \E d \in Delays : Advance(d)
  /\ docOpen' = TRUE
  /\ ran' = Append(ran, "layout")
  /\ all_blocks' = << >>
  /\ page_num' = 0
  /\ pc' = IF ScanPages = 0 THEN "lay_close" ELSE "lay_page"
  /\ UNCHANGED << batchVars, started, checked, tocDone, tocLeft, toc_result,
                  heuristic_result, fallback_result, body_font, title, headings,
                  seen, bi, sortKeys, all_text, faulted, source, result >>

\* one turn of the loop over the pages: page.get_text("dict"), the spans,
\* and the check of the time left
LayoutPage ==
  /\ pc = "lay_page"
  /\ \E d \in Delays : Advance(d)
  /\ all_blocks' = all_blocks \o PageBlocks(page_num, doc.pages[page_num + 1])
  /\ IF TimeLeftAt(elapsed') < PageScanStop \/ page_num + 1 = ScanPages
     THEN pc' = "lay_close" /\ UNCHANGED page_num
     ELSE pc' = "lay_page" /\ page_num' = page_num + 1
  /\ UNCHANGED << batchVars, started, docOpen, ran, checked, tocDone, tocLeft,
                  toc_result, heuristic_result, fallback_result, body_font,
                  title, headings, seen, bi, sortKeys, all_text, faulted,
                  source, result >>

\* doc.close(), the body font, the title, and the start of the heading loop
LayoutClose ==
  /\ pc = "lay_close"
  /\ docOpen' = FALSE
  /\ \E f \in BodyFontOutcomes(all_blocks) :
        /\ body_font' = f
        /\ title' = _extract_title(all_blocks, f)
  /\ headings' = << >>
  /\ seen' = {}
  /\ bi' = 1
  /\ pc' = "lay_heading"
  /\ UNCHANGED << batchVars, started, elapsed, ran, checked, tocDone, tocLeft,
                  toc_result, heuristic_result, fallback_result, page_num,
                  all_blocks, sortKeys, all_text, faulted, source, result >>

\* one turn of the loop of _extract_headings_multilayer
LayoutHeading ==
  /\ pc = "lay_heading"
  /\ bi <= Len(all_blocks)
  /\ \E d \in Delays : Advance(d)
  /\ LET block == all_blocks[bi]
         text  == Strip(block.text)
         level == _heading_level(block, body_font)
     IN  IF \/ text \in seen
            \/ Len(text) < MinTextLen
            \/ Len(text) > MaxTextLen
            \/ _is_artifact(text)
         THEN /\ bi' = bi + 1
              /\ UNCHANGED << headings, seen >>
         ELSE /\ IF level # ""
                 THEN /\ headings' = Append(headings,
                            [level |-> level, text |-> text, page |-> block.page])
                      /\ seen' = seen \cup {text}
                 ELSE UNCHANGED << headings, seen >>
              /\ bi' = IF TimeLeftAt(elapsed') < HeadingScanStop
                       THEN Len(all_blocks) + 1 ELSE bi + 1
  /\ UNCHANGED << pc, batchVars, started, docOpen, ran, checked, tocDone, tocLeft,
                  toc_result, heuristic_result, fallback_result, page_num,
                  all_blocks, body_font, title, sortKeys, all_text, faulted,
                  source, result >>

\* headings.sort(...); return self._clean_headings(headings), and the return
\* of _extract_with_pymupdf
LayoutReturn ==
  /\ pc = "lay_heading"
  /\ bi > Len(all_blocks)
  /\ heuristic_result' = Result(title, _clean_headings(SortHeadings(headings)))
  /\ sortKeys' = SortKeys(SortHeadings(headings))
  /\ pc' = "lay_check"
  /\ StrategyLocalsCleared
  /\ UNCHANGED << batchVars, started, elapsed, docOpen, ran, checked, tocDone,
                  tocLeft, toc_result, fallback_result, headings, faulted,
                  source, result >>

(***************************************************************************)
(* _extract_with_regex_fallback                                            *)
(***************************************************************************)

\* doc = fitz.open(pdf_path); all_text = ""
PatternOpen ==
  /\ pc = "pat_open"
  /\ \E d \in Delays : Advance(d)
  /\ docOpen' = TRUE
  /\ ran' = Append(ran, "pattern")
  /\ all_text' = << >>
  /\ page_num' = 0
  /\ pc' = IF ScanPages = 0 THEN "pat_close" ELSE "pat_page"
  /\ UNCHANGED << batchVars, started, checked, tocDone, tocLeft, toc_result,
                  heuristic_result, fallback_result, layoutVars, faulted,
                  source, result >>

\* all_text += f"[PAGE_{page_num + 1}]" + page.get_text()
PatternPage ==
  /\ pc = "pat_page"
  /\ \E d \in Delays : Advance(d)
  /\ all_text' = all_text \o PageText(page_num, doc.pages[page_num + 1].raw)
  /\ IF page_num + 1 = ScanPages
     THEN pc' = "pat_close" /\ UNCHANGED page_num
     ELSE pc' = "pat_page" /\ page_num' = page_num + 1
  /\ UNCHANGED << batchVars, started, docOpen, ran, checked, tocDone, tocLeft,
                  toc_result, heuristic_result, fallback_result, layoutVars,
                  faulted, source, result >>

\* doc.close(), the regular expression passes and the return
PatternReturn ==
  /\ pc = "pat_close"
  /\ \E d \in Delays : Advance(d)
  /\ docOpen' = FALSE
  /\ fallback_result' = FallbackResult(all_text)
  /\ pc' = "pat_check"
  /\ StrategyLocalsCleared
  /\ UNCHANGED << batchVars, started, ran, checked, tocDone, tocLeft,
                  toc_result, heuristic_result, headings, sortKeys, faulted,
                  source, result >>

Next ==
  \/ NextFile
  \/ WriteOutput
  \/ TocOpen
  \/ TocRead
  \/ CheckToc
  \/ CheckLayout
  \/ PatternGateCheck
  \/ CheckPattern
  \/ Fault
  \/ Finalize
  \/ LayoutOpen
  \/ LayoutPage
  \/ LayoutClose
  \/ LayoutHeading
  \/ LayoutReturn
  \/ PatternOpen
  \/ PatternPage
  \/ PatternReturn

Spec == Init /\ [][Next]_vars

(***************************************************************************)
(* Properties                                                              *)
(***************************************************************************)

\* the candidate has between 1 and 100 entries
InRange(candidate) ==
  /\ ~candidate.isNone
  /\ Len(candidate.outline) >= 1
  /\ Len(candidate.outline) <= 100

Texts(outline) == [k \in 1..Len(outline) |-> outline[k].text]

NoRepeat(seq) == \A i, j \in 1..Len(seq) : seq[i] = seq[j] => i = j

OpenHandles == (IF docOpen THEN 1 ELSE 0) + leaked

\* C1 (monotonic fallback): the strategies of one extract_outline run in the
\* order metadata, layout, pattern, each at most once; when the metadata
\* strategy has returned a candidate the validator does not accept and the
\* time left at that point is at most 5.0, the layout strategy is not invoked
\* in that run, and when it is at most 1.0 the pattern strategy is not
\* invoked either.
MonotonicFallback ==
  /\ ran \in { << >>, <<"toc">>, <<"toc", "layout">>, <<"toc", "pattern">>,
               <<"toc", "layout", "pattern">> }
  /\ (tocDone /\ ~InRange(toc_result) /\ tocLeft <= 50)
        => \A i \in 1..Len(ran) : ran[i] # "layout"
  /\ (tocDone /\ ~InRange(toc_result) /\ tocLeft <= 10)
        => \A i \in 1..Len(ran) : ran[i] # "pattern"

\* the metadata strategy failed with exactly 5.0 left: the layout strategy
\* was skipped and the pattern strategy ran
MonotonicFallbackWitness ==
  /\ pc = "returned"
  /\ tocDone
  /\ ~InRange(toc_result)
  /\ tocLeft = 50
  /\ ran = <<"toc", "pattern">>

\* C2 (bookmark authority): when the bookmark list of the document is not
\* empty and its cleaning keeps between 1 and 100 entries, extract_outline
\* returns what the metadata strategy returned, whatever the pages hold and
\* whatever time has passed, and invokes no other strategy.
BookmarkAuthority ==
  ( /\ pc = "returned"
    /\ tocDone
    /\ doc.toc # << >>
    /\ Len(TocOutline(doc.toc)) >= 1
    /\ Len(TocOutline(doc.toc)) <= 100 )
  => /\ result = toc_result
     /\ ~result.isNone
     /\ ran = <<"toc">>

\* a bookmark list of exactly 100 entries is returned although the budget
\* was used up while it was read
BookmarkAuthorityWitness ==
  /\ pc = "returned"
  /\ Len(doc.toc) = 100
  /\ elapsed >= max_runtime
  /\ result = toc_result
  /\ Len(result.outline) = 100

\* C3 (fault isolation): an exception raised during extract_outline never
\* leaves it; extract_outline then returns exactly the error result; and in
\* process_directory every file taken so far has had its output written
\* exactly once, the file in progress not yet.
FaultIsolation ==
  /\ pc # "crashed"
  /\ faulted => (pc = "returned" /\ result = ErrorResult)
  /\ \A i \in 1..MaxDocs :
        writes[i] = IF i < idx \/ (i = idx /\ pc = "idle") THEN 1 ELSE 0

\* every file of the batch raised an exception while its handle was open,
\* and every file has its output
FaultIsolationWitness ==
  /\ pc = "idle"
  /\ idx = MaxDocs
  /\ leaked = MaxDocs
  /\ \A i \in 1..MaxDocs : writes[i] = 1

\* C4 (bounded termination), as claimed: when extract_outline returns, the
\* time since start_time does not exceed max_runtime.
BoundedTermination == pc = "returned" => TimeLeft >= 0

\* C5 (handle release), as claimed: at most one handle is open at any time,
\* and none is open when extract_outline has returned.
HandleRelease ==
  /\ OpenHandles <= 1
  /\ pc \in {"returned", "idle"} => OpenHandles = 0

\* C6 (returned result shape): the validator accepts exactly the candidates
\* with 1 to 100 entries; a strategy's candidate is returned only when the
\* validator accepted it; so a returned result has 1 to 100 entries, or no
\* entry and the title "Untitled Document" or "Error in Processing".
ReturnedShape ==
  /\ \A i \in 1..Len(checked) :
        checked[i].ok <=> ( /\ ~checked[i].isNone
                            /\ checked[i].count >= 1
                            /\ checked[i].count <= 100 )
  /\ (pc = "returned" /\ source \in {"toc", "layout", "pattern"})
        => /\ checked # << >>
           /\ checked[Len(checked)].ok
           /\ checked[Len(checked)].strategy = source
           /\ InRange(result)
  /\ pc = "returned"
        => \/ InRange(result)
           \/ /\ ~result.isNone
              /\ result.outline = << >>
              /\ result.title \in {UntitledDocument, ErrorInProcessing}

\* a candidate of 101 entries was rejected and a later candidate returned
ReturnedShapeWitness ==
  /\ pc = "returned"
  /\ source = "layout"
  /\ Len(checked) = 2
  /\ checked[1].count = 101
  /\ ~checked[1].ok

\* the normal form of an entry text
NormalForm(text) ==
  /\ Len(text) >= 3
  /\ Len(text) <= 150
  /\ \A i \in 1..(Len(text) - 1) : ~(text[i] \in Space /\ text[i + 1] \in Space)
  /\ text[1] \notin Punct
  /\ text[Len(text)] \notin Punct

\* C7 (entry text normal form), as claimed: every entry of a returned
\* outline, whichever strategy produced it, has a text of length 3 to 150
\* without a run of whitespace and without '.', ',', ';', ':' at either end.
EntryTextNormalForm ==
  pc = "returned" => \A k \in 1..Len(result.outline) : NormalForm(result.outline[k].text)

\* C8 (no duplicate entries), as claimed: no outline of the layout strategy
\* and no outline of the pattern strategy has two entries with the same text.
NoDuplicateEntries ==
  /\ NoRepeat(Texts(heuristic_result.outline))
  /\ NoRepeat(Texts(fallback_result.outline))

\* C8, amended: no outline of the layout strategy has two entries with the
\* same text.
NoDuplicateLayoutEntries == NoRepeat(Texts(heuristic_result.outline))

\* the layout strategy returned an outline from headings of which two had
\* the same text after the cleanup
NoDuplicateLayoutWitness ==
  /\ pc = "returned"
  /\ source = "layout"
  /\ Len(result.outline) >= 2
  /\ \E i, j \in 1..Len(headings) :
        i # j /\ CleanText(headings[i].text) = CleanText(headings[j].text)

\* C9 (artifact exclusion), as claimed: no entry of an outline of the layout
\* strategy has a text that is pure digits, starts with "Page <number>",
\* contains "copyright", "all rights reserved", "page" or "table of
\* contents", or contains "http", "www." or "@".
ArtifactExclusion ==
  \A k \in 1..Len(heuristic_result.outline) :
     LET text == heuristic_result.outline[k].text
     IN  /\ ~PureDigits(text)
         /\ ~PageNumberPrefix(text)
         /\ ~BoilerplateWord(text)
         /\ ~LinkLike(text)

\* C9, amended: every entry of an outline of the layout strategy comes from
\* a fragment whose text, as the fragment carries it (stripped of
\* surrounding whitespace, before the cleanup), is none of these.
ArtifactFragmentExclusion ==
  /\ Len(sortKeys) = Len(heuristic_result.outline)
  /\ \A k \in 1..Len(sortKeys) :
        /\ heuristic_result.outline[k].text = CleanText(sortKeys[k])
        /\ ~PureDigits(sortKeys[k])
        /\ ~PageNumberPrefix(sortKeys[k])
        /\ ~BoilerplateWord(sortKeys[k])
        /\ ~LinkLike(sortKeys[k])

\* the layout strategy returned headings of a document whose fragments
\* include texts of the filter, with larger fonts than the body
ArtifactExclusionWitness ==
  /\ pc = "returned"
  /\ source = "layout"
  /\ \E p \in 1..Len(doc.pages) : \E i \in 1..Len(doc.pages[p].spans) :
        /\ _is_artifact(Strip(doc.pages[p].spans[i].text))
        /\ doc.pages[p].spans[i].size >= 18
  /\ \E k \in 1..Len(sortKeys) : result.outline[k].text # sortKeys[k]

\* the entries are in the order of (page, text), for the given texts
OrderedBy(outline, texts) ==
  \A k \in 1..(Len(outline) - 1) :
     \/ outline[k].page < outline[k + 1].page
     \/ /\ outline[k].page = outline[k + 1].page
        /\ StrLeq(texts[k], texts[k + 1])

\* C10 (layout output order), as claimed: the entries of an outline of the
\* layout strategy are sorted by (page, text), text being the text of the
\* entry in the returned outline.
LayoutOrderByReturnedText ==
  OrderedBy(heuristic_result.outline, Texts(heuristic_result.outline))

\* C10, amended: they are sorted by (page, text), text being the text the
\* entry had when the list was sorted, before the final cleanup pass.
LayoutOrderBySortKey ==
  /\ Len(sortKeys) = Len(heuristic_result.outline)
  /\ OrderedBy(heuristic_result.outline, sortKeys)

\* the layout strategy returned two entries of one page out of their order
\* of extraction, one of them changed by the cleanup
LayoutOrderWitness ==
  /\ pc = "returned"
  /\ source = "layout"
  /\ \E k \in 1..(Len(result.outline) - 1) :
        /\ result.outline[k].page = result.outline[k + 1].page
        /\ result.outline[k].text # sortKeys[k]
        /\ \E i, j \in 1..Len(headings) :
              /\ i > j
              /\ headings[i].text = sortKeys[k]
              /\ headings[j].text = sortKeys[k + 1]

====
